---- MODULE Spec2Model ----
(***************************************************************************)
(* Chemical weathering feedback box model (src/main.py).                   *)
(*                                                                         *)
(* The script is a straight-line program: it allocates three float64       *)
(* arrays, stores the initial state at index 0, runs an explicit-Euler     *)
(* loop over indices 1..time_steps-1 and hands the arrays to matplotlib.   *)
(*                                                                         *)
(* Lines 3-7 of the file as stored are prose without comment or docstring  *)
(* marks, so Python rejects the file with SyntaxError before any statement *)
(* runs.  The form of the header is an input of the model (header): with   *)
(* "prose" the run ends in SyntaxError for every configuration, with       *)
(* "docstring" (the same lines marked as documentation) lines 9-56 run.    *)
(*                                                                         *)
(* Every number the script computes is an IEEE-754 binary64 value.  A      *)
(* finite binary64 value is a dyadic rational sg * m * 2^e; the model      *)
(* keeps it in that form, with m an arbitrary-precision natural (a         *)
(* little-endian sequence of limbs, because TLC integers are 32 bits       *)
(* wide), and every arithmetic operation of the script is the exact        *)
(* dyadic operation followed by rounding to Precision bits, ties to even.  *)
(* The exponent range of binary64 (overflow to inf, subnormals) is not     *)
(* modelled: the values the model reaches lie between 2^-200 and 2^200.    *)
(* The sign of zero is not modelled either (-0.0 == 0.0 in Python).        *)
(***************************************************************************)
EXTENDS Integers, Sequences, FiniteSets, TLC

----------------------------------------------------------------------------
(* Arbitrary-precision naturals: little-endian limb sequences, no high     *)
(* zero limb, zero is the empty sequence.                                  *)

Base == 2^15

RECURSIVE BitLenInt(_)
BitLenInt(n) == IF n = 0 THEN 0 ELSE 1 + BitLenInt(n \div 2)

LimbBits == BitLenInt(Base - 1)

RECURSIVE Trim(_)
Trim(m) ==
  IF m = <<>> THEN <<>>
  ELSE IF m[Len(m)] = 0 THEN Trim(SubSeq(m, 1, Len(m) - 1)) ELSE m

RECURSIVE FromNat(_)
FromNat(n) == IF n = 0 THEN <<>> ELSE <<n % Base>> \o FromNat(n \div Base)

RECURSIVE AddC(_, _, _)
AddC(a, b, c) ==
  IF a = <<>> /\ b = <<>> THEN (IF c = 0 THEN <<>> ELSE <<c>>)
  ELSE LET x == IF a = <<>> THEN 0 ELSE Head(a)
           y == IF b = <<>> THEN 0 ELSE Head(b)
           s == x + y + c
       IN <<s % Base>> \o AddC(IF a = <<>> THEN <<>> ELSE Tail(a),
                               IF b = <<>> THEN <<>> ELSE Tail(b),
                               s \div Base)

BigAdd(a, b) == AddC(a, b, 0)

\* a - b - br for a >= b + br, before trimming
RECURSIVE SubB(_, _, _)
SubB(a, b, br) ==
  IF a = <<>> THEN <<>>
  ELSE LET y == (IF b = <<>> THEN 0 ELSE Head(b)) + br
           x == Head(a)
       IN IF x >= y
          THEN <<x - y>> \o SubB(Tail(a), IF b = <<>> THEN <<>> ELSE Tail(b), 0)
          ELSE <<x + Base - y>> \o SubB(Tail(a), IF b = <<>> THEN <<>> ELSE Tail(b), 1)

BigSub(a, b) == Trim(SubB(a, b, 0))

\* a * k + c for a single limb k
RECURSIVE MulSmallC(_, _, _)
MulSmallC(a, k, c) ==
  IF a = <<>> THEN (IF c = 0 THEN <<>> ELSE <<c>>)
  ELSE LET p == Head(a) * k + c
       IN <<p % Base>> \o MulSmallC(Tail(a), k, p \div Base)

MulSmall(a, k) == IF k = 0 THEN <<>> ELSE MulSmallC(a, k, 0)

RECURSIVE BigMul(_, _)
BigMul(a, b) ==
  IF a = <<>> \/ b = <<>> THEN <<>>
  ELSE LET rest == BigMul(a, Tail(b))
       IN BigAdd(MulSmall(a, Head(b)),
                 IF rest = <<>> THEN <<>> ELSE <<0>> \o rest)

\* -1, 0, 1 as a < b, a = b, a > b
RECURSIVE CmpFromTop(_, _, _)
CmpFromTop(a, b, k) ==
  IF k = 0 THEN 0
  ELSE IF a[k] < b[k] THEN 0 - 1
  ELSE IF a[k] > b[k] THEN 1
  ELSE CmpFromTop(a, b, k - 1)

BigCmp(a, b) ==
  IF Len(a) < Len(b) THEN 0 - 1
  ELSE IF Len(a) > Len(b) THEN 1
  ELSE CmpFromTop(a, b, Len(a))

\* quotient and remainder of a by a small divisor d (d * Base fits an int)
RECURSIVE DivSmallR(_, _, _)
DivSmallR(a, d, k) ==
  IF k > Len(a) THEN [q |-> <<>>, r |-> 0]
  ELSE LET hi  == DivSmallR(a, d, k + 1)
           cur == hi.r * Base + a[k]
       IN [q |-> <<cur \div d>> \o hi.q, r |-> cur % d]

DivSmall(a, d) ==
  LET res == DivSmallR(a, d, 1) IN [q |-> Trim(res.q), r |-> res.r]

RECURSIVE ShiftLeft(_, _)
ShiftLeft(m, k) ==
  IF m = <<>> \/ k = 0 THEN m
  ELSE IF k >= LimbBits THEN <<0>> \o ShiftLeft(m, k - LimbBits)
  ELSE MulSmall(m, 2^k)

RECURSIVE ShiftRight(_, _)
ShiftRight(m, k) ==
  IF m = <<>> \/ k = 0 THEN m
  ELSE IF k >= LimbBits THEN ShiftRight(Tail(m), k - LimbBits)
  ELSE DivSmall(m, 2^k).q

BitLen(m) ==
  IF m = <<>> THEN 0 ELSE LimbBits * (Len(m) - 1) + BitLenInt(m[Len(m)])

RECURSIVE TrailingZerosInt(_)
TrailingZerosInt(n) == IF n % 2 = 1 THEN 0 ELSE 1 + TrailingZerosInt(n \div 2)

RECURSIVE TrailingZeros(_)
TrailingZeros(m) ==
  IF Head(m) = 0 THEN LimbBits + TrailingZeros(Tail(m))
  ELSE TrailingZerosInt(Head(m))

----------------------------------------------------------------------------
(* Dyadic rationals sg * m * 2^e in canonical form: m odd, or Zero.        *)

Zero == [sg |-> 0, m |-> <<>>, e |-> 0]

Norm(sg, m, e) ==
  IF m = <<>> \/ sg = 0 THEN Zero
  ELSE LET tz == TrailingZeros(m)
       IN [sg |-> sg, m |-> ShiftRight(m, tz), e |-> e + tz]

DNeg(x) == [sg |-> 0 - x.sg, m |-> x.m, e |-> x.e]

DAbs(x) == [sg |-> x.sg * x.sg, m |-> x.m, e |-> x.e]

DMul(x, y) == Norm(x.sg * y.sg, BigMul(x.m, y.m), x.e + y.e)

DAdd(x, y) ==
  IF x.sg = 0 THEN y
  ELSE IF y.sg = 0 THEN x
  ELSE LET e == IF x.e < y.e THEN x.e ELSE y.e
           a == ShiftLeft(x.m, x.e - e)
           b == ShiftLeft(y.m, y.e - e)
           c == BigCmp(a, b)
       IN IF x.sg = y.sg THEN Norm(x.sg, BigAdd(a, b), e)
          ELSE IF c = 0 THEN Zero
          ELSE IF c = 1 THEN Norm(x.sg, BigSub(a, b), e)
          ELSE Norm(y.sg, BigSub(b, a), e)

DSub(x, y) == DAdd(x, DNeg(y))

DLeq(x, y) == DSub(y, x).sg >= 0

DLess(x, y) == DSub(y, x).sg = 1

\* x * 2^k
DScale(x, k) == IF x.sg = 0 THEN x ELSE [sg |-> x.sg, m |-> x.m, e |-> x.e + k]

----------------------------------------------------------------------------
(* binary64 arithmetic: the exact result rounded to Precision bits,        *)
(* round-half-to-even.                                                     *)

Precision == 53

Round(x) ==
  LET L == BitLen(x.m)
  IN IF L <= Precision THEN x
     ELSE LET k    == L - Precision
              q    == ShiftRight(x.m, k)
              r    == BigSub(x.m, ShiftLeft(q, k))
              half == ShiftLeft(<<1>>, k - 1)
              c    == BigCmp(r, half)
              up   == c = 1 \/ (c = 0 /\ Head(q) % 2 = 1)
          IN Norm(x.sg, IF up THEN BigAdd(q, <<1>>) ELSE q, x.e + k)

FAdd(x, y) == Round(DAdd(x, y))
FSub(x, y) == Round(DSub(x, y))
FMul(x, y) == Round(DMul(x, y))

\* floor(m / 10^k) with a sticky flag for a non-zero remainder
RECURSIVE DivPow10(_, _, _)
DivPow10(m, k, sticky) ==
  IF k = 0 THEN [q |-> m, sticky |-> sticky]
  ELSE LET d == DivSmall(m, 10)
       IN DivPow10(d.q, k - 1, IF d.r = 0 THEN sticky ELSE 1)

GuardBits == 3 * Precision

\* The binary64 value of the decimal literal n * 10^-k (n an integer,
\* k >= 0), correctly rounded as Python's parser does; k = 0 is the
\* int -> float64 conversion of a stored Python int.
Dec(n, k) ==
  IF n = 0 THEN Zero
  ELSE LET sg  == IF n < 0 THEN 0 - 1 ELSE 1
           mag == FromNat(n * sg)
           d   == DivPow10(ShiftLeft(mag, GuardBits), k, 0)
           m   == BigAdd(MulSmall(d.q, 2), IF d.sticky = 0 THEN <<>> ELSE <<1>>)
       IN Round(Norm(sg, m, 0 - GuardBits - 1))

----------------------------------------------------------------------------
(* numpy arrays: functions on 0..n-1, as the script indexes them.          *)

NpArange(n) == [k \in 0..(n - 1) |-> Dec(k, 0)]

\* np.zeros with one element too many
NpZeros_OneExtra(n) == [k \in 0..n |-> Zero]

NpZeros(n) == [k \in 0..(n - 1) |-> Zero]

ArrLen(a) == Cardinality(DOMAIN a)

----------------------------------------------------------------------------
(* The loop body, lines 38-40, as the script evaluates it: left to right,  *)
(* each operation rounded.                                                 *)

\* the release flux added to the rock box instead of removed
RockStep_ReleaseAdded(r, a, k1, k2) == FAdd(FAdd(r, FMul(k1, r)), FMul(k2, a))

RockStep(r, a, k1, k2) == FAdd(FSub(r, FMul(k1, r)), FMul(k2, a))

\* the release flux missing from the atmosphere update
AtmoStep_NoRelease(r, a, k1, k2) == FSub(a, FMul(k2, a))

\* the burial flux added to the atmosphere box instead of removed
AtmoStep_BurialAdded(r, a, k1, k2) == FAdd(FAdd(a, FMul(k1, r)), FMul(k2, a))

AtmoStep(r, a, k1, k2) == FSub(FAdd(a, FMul(k1, r)), FMul(k2, a))

\* temperature driven by atmospheric carbon instead of its anomaly
TempStep_NoAnomaly(a, t0, a0, k3) == FAdd(t0, FMul(k3, a))

TempStep(a, t0, a0, k3) == FAdd(t0, FMul(k3, FSub(a, a0)))

----------------------------------------------------------------------------
(* Inputs.  The script's constants are "modifiable"; the model draws them  *)
(* from small sets, and it also runs the script's own configuration        *)
(* (ScriptConfig: the constants of lines 13-20 with time_steps = 1000).    *)

MaxSteps == 4

StepCounts == (0 - 1)..MaxSteps

Rates == {Dec(0, 0), Dec(5, 3), Dec(1, 2), Dec(99999, 5), Dec(1, 0), Dec(15, 1)}

Sensitivities == {Dec(2, 2), Dec(0 - 5, 1)}

RockInits == {Dec(0, 0), Dec(3, 0), Dec(1000, 0)}

AtmoInits == {Dec(0, 0), Dec(300, 0)}

TempInits == {Dec(15, 0), Dec(0 - 4, 0)}

\* line 23
TimeSteps == 1000

\* lines 3-7 as stored ("prose") or marked as documentation ("docstring")
HeaderForms == {"prose", "docstring"}

----------------------------------------------------------------------------
VARIABLES header, time_steps, c1, c2, c3, rock_0, atmo_0, T_0,
          time, rock, atmo, T, i, pc, err, plotted, saved

\* the source text: header form, constants, initial conditions, step count
params == <<header, time_steps, c1, c2, c3, rock_0, atmo_0, T_0>>

vars == <<header, time_steps, c1, c2, c3, rock_0, atmo_0, T_0,
          time, rock, atmo, T, i, pc, err, plotted, saved>>

\* lines 13-20 as written
Defaults ==
  /\ c1 = Dec(1, 2)
  /\ c2 = Dec(5, 3)
  /\ c3 = Dec(2, 2)
  /\ rock_0 = Dec(1000, 0)
  /\ atmo_0 = Dec(300, 0)
  /\ T_0 = Dec(15, 0)

\* lines 13-23 as written
ScriptConfig == Defaults /\ time_steps = TimeSteps

\* State before Python reads the file.  i = 0 stands for the loop variable
\* not yet bound (range(1, time_steps) never yields 0).
Init ==
  /\ header \in HeaderForms
  /\ \/ /\ time_steps \in StepCounts
        /\ c1 \in Rates
        /\ c2 \in Rates
        /\ c3 \in Sensitivities
        /\ rock_0 \in RockInits
        /\ atmo_0 \in AtmoInits
        /\ T_0 \in TempInits
     \/ ScriptConfig
  /\ time = NpZeros(0)
  /\ rock = NpZeros(0)
  /\ atmo = NpZeros(0)
  /\ T = NpZeros(0)
  /\ i = 0
  /\ pc = "compile"
  /\ err = "none"
  /\ plotted = <<>>
  /\ saved = FALSE

\* lines 1-7: Python compiles the whole file before running it; the prose
\* header is a SyntaxError (line 3), so no statement of the file runs.
Compile ==
  /\ pc = "compile"
  /\ IF header = "prose"
     THEN pc' = "error" /\ err' = "SyntaxError"
     ELSE pc' = "alloc" /\ err' = err
  /\ UNCHANGED <<params, time, rock, atmo, T, i, plotted, saved>>

\* lines 24-29: np.arange accepts any integer (empty for n <= 0); np.zeros
\* raises ValueError for a negative size.
Allocate ==
  /\ pc = "alloc"
  /\ time' = NpArange(time_steps)
  /\ IF time_steps < 0
     THEN /\ pc' = "error"
          /\ err' = "ValueError"
          /\ UNCHANGED <<rock, atmo, T>>
     ELSE /\ rock' = NpZeros(time_steps)
          /\ atmo' = NpZeros(time_steps)
          /\ T' = NpZeros(time_steps)
          /\ pc' = "init"
          /\ err' = err
  /\ UNCHANGED <<params, i, plotted, saved>>

\* the initial rock and atmosphere values stored in each other's array
SetInitialState_Swapped ==
  /\ pc = "init"
  /\ IF 0 \in DOMAIN rock
     THEN /\ rock' = [rock EXCEPT ![0] = atmo_0]
          /\ atmo' = [atmo EXCEPT ![0] = rock_0]
          /\ T' = [T EXCEPT ![0] = T_0]
          /\ pc' = "for"
          /\ err' = err
     ELSE /\ pc' = "error"
          /\ err' = "IndexError"
          /\ UNCHANGED <<rock, atmo, T>>
  /\ UNCHANGED <<params, time, i, plotted, saved>>

\* a container that grows on assignment instead of raising IndexError
SetInitialState_NoIndexCheck ==
  /\ pc = "init"
  /\ rock' = [k \in DOMAIN rock \cup {0} |-> IF k = 0 THEN rock_0 ELSE rock[k]]
  /\ atmo' = [k \in DOMAIN atmo \cup {0} |-> IF k = 0 THEN atmo_0 ELSE atmo[k]]
  /\ T' = [k \in DOMAIN T \cup {0} |-> IF k = 0 THEN T_0 ELSE T[k]]
  /\ pc' = "for"
  /\ UNCHANGED <<params, time, i, err, plotted, saved>>

\* lines 32-34: index 0 of an empty array raises IndexError at line 32.
SetInitialState ==
  /\ pc = "init"
  /\ IF 0 \in DOMAIN rock
     THEN /\ rock' = [rock EXCEPT ![0] = rock_0]
          /\ atmo' = [atmo EXCEPT ![0] = atmo_0]
          /\ T' = [T EXCEPT ![0] = T_0]
          /\ pc' = "for"
          /\ err' = err
     ELSE /\ pc' = "error"
          /\ err' = "IndexError"
          /\ UNCHANGED <<rock, atmo, T>>
  /\ UNCHANGED <<params, time, i, plotted, saved>>

\* range(1, time_steps + 1)
ForNext_Inclusive ==
  /\ pc = "for"
  /\ IF i + 1 <= time_steps
     THEN i' = i + 1 /\ pc' = "rock"
     ELSE i' = i /\ pc' = "plot"
  /\ UNCHANGED <<params, time, rock, atmo, T, err, plotted, saved>>

\* range(1, time_steps - 1)
ForNext_StopsEarly ==
  /\ pc = "for"
  /\ IF i + 1 < time_steps - 1
     THEN i' = i + 1 /\ pc' = "rock"
     ELSE i' = i /\ pc' = "plot"
  /\ UNCHANGED <<params, time, rock, atmo, T, err, plotted, saved>>

\* line 37: the next value of range(1, time_steps), or the end of the loop.
ForNext ==
  /\ pc = "for"
  /\ IF i + 1 < time_steps
     THEN i' = i + 1 /\ pc' = "rock"
     ELSE i' = i /\ pc' = "plot"
  /\ UNCHANGED <<params, time, rock, atmo, T, err, plotted, saved>>

\* line 38
UpdateRock ==
  /\ pc = "rock"
  /\ rock' = [rock EXCEPT ![i] = RockStep(rock[i - 1], atmo[i - 1], c1, c2)]
  /\ pc' = "atmo"
  /\ UNCHANGED <<params, time, atmo, T, i, err, plotted, saved>>

\* the atmosphere update reading rock[i], written by line 38 of the same step
UpdateAtmo_ReadsUpdatedRock ==
  /\ pc = "atmo"
  /\ atmo' = [atmo EXCEPT ![i] = AtmoStep(rock[i], atmo[i - 1], c1, c2)]
  /\ pc' = "temp"
  /\ UNCHANGED <<params, time, rock, T, i, err, plotted, saved>>

\* line 39
UpdateAtmo ==
  /\ pc = "atmo"
  /\ atmo' = [atmo EXCEPT ![i] = AtmoStep(rock[i - 1], atmo[i - 1], c1, c2)]
  /\ pc' = "temp"
  /\ UNCHANGED <<params, time, rock, T, i, err, plotted, saved>>

\* line 40
UpdateT ==
  /\ pc = "temp"
  /\ T' = [T EXCEPT ![i] = TempStep(atmo[i], T_0, atmo_0, c3)]
  /\ pc' = "for"
  /\ UNCHANGED <<params, time, rock, atmo, i, err, plotted, saved>>

\* lines 43-52: the three plt.plot calls receive (time, rock), (time, atmo)
\* and (time, T).
PlotResults ==
  /\ pc = "plot"
  /\ plotted' = <<[x |-> time, y |-> rock, label |-> "Carbon in Rock (GtC)"],
                  [x |-> time, y |-> atmo, label |-> "Carbon in Atmosphere (GtC)"],
                  [x |-> time, y |-> T, label |-> "Global Temperature (°C)"]>>
  /\ pc' = "save"
  /\ UNCHANGED <<params, time, rock, atmo, T, i, err, saved>>

\* line 55: savefig writes outputs/time_series_plot.png, or raises
\* FileNotFoundError when the directory outputs/ does not exist.
SaveFigure ==
  /\ pc = "save"
  /\ \E dirExists \in BOOLEAN :
       IF dirExists
       THEN saved' = TRUE /\ pc' = "show" /\ err' = err
       ELSE saved' = saved /\ pc' = "error" /\ err' = "FileNotFoundError"
  /\ UNCHANGED <<params, time, rock, atmo, T, i, plotted>>

\* line 56
Show ==
  /\ pc = "show"
  /\ pc' = "done"
  /\ UNCHANGED <<params, time, rock, atmo, T, i, err, plotted, saved>>

Next ==
  \/ Compile
  \/ Allocate
  \/ SetInitialState
  \/ ForNext
  \/ UpdateRock
  \/ UpdateAtmo
  \/ UpdateT
  \/ PlotResults
  \/ SaveFigure
  \/ Show

Spec == Init /\ [][Next]_vars

----------------------------------------------------------------------------
(* Progress of the run, read off pc and i.                                 *)

\* the loop has finished (line 42 reached)
Finished ==
  \/ pc \in {"plot", "save", "show", "done"}
  \/ pc = "error" /\ err = "FileNotFoundError"

\* lines 32-34 have been executed
Initialised == pc \in {"for", "rock", "atmo", "temp"} \/ Finished

RockWritten(k) ==
  /\ Initialised
  /\ k \in 0..(time_steps - 1)
  /\ k < i \/ (k = i /\ pc # "rock")

AtmoWritten(k) ==
  /\ Initialised
  /\ k \in 0..(time_steps - 1)
  /\ k < i \/ (k = i /\ pc \notin {"rock", "atmo"})

TWritten(k) ==
  /\ Initialised
  /\ k \in 0..(time_steps - 1)
  /\ k < i \/ (k = i /\ pc \notin {"rock", "atmo", "temp"})

\* The indices a state is examined at: the index the loop is working on
\* while it runs, every index once it has finished.  An index below i was
\* examined when it was i, and is not written again.
Examined(k) == k = i \/ Finished

----------------------------------------------------------------------------
(* C1: for every N >= 1, once the loop has finished, time, rock, atmo and  *)
(* T all have length N (indices 0..N-1), and each of the three plot calls  *)
(* receives an x and a y sequence of length N.                             *)
C1_LengthsEqualN ==
  (Finished /\ time_steps >= 1) =>
    /\ DOMAIN time = 0..(time_steps - 1)
    /\ DOMAIN rock = 0..(time_steps - 1)
    /\ DOMAIN atmo = 0..(time_steps - 1)
    /\ DOMAIN T = 0..(time_steps - 1)
    /\ ArrLen(time) = time_steps
    /\ ArrLen(rock) = time_steps
    /\ ArrLen(atmo) = time_steps
    /\ ArrLen(T) = time_steps
    /\ pc # "plot" => Len(plotted) = 3
    /\ \A p \in 1..Len(plotted) :
         ArrLen(plotted[p].x) = time_steps /\ ArrLen(plotted[p].y) = time_steps

C1_Witness ==
  /\ pc = "done"
  /\ time_steps >= 3
  /\ Len(plotted) = 3
  /\ ArrLen(plotted[3].y) = time_steps

(* C2: in every state after the initial state has been set, index 0 of     *)
(* rock, atmo and T holds rock_0, atmo_0 and T_0: no loop step overwrites  *)
(* index 0.                                                                *)
C2_InitialStateKept ==
  Initialised => (rock[0] = rock_0 /\ atmo[0] = atmo_0 /\ T[0] = T_0)

C2_Witness ==
  /\ pc = "done"
  /\ time_steps >= 3
  /\ rock[1] # rock_0
  /\ T[2] # T_0
  /\ rock[0] = rock_0 /\ rock_0 # Zero

(* C3: every index k >= 1 of the finished trajectory (and the index being  *)
(* written while the loop runs) satisfies the step recurrence, evaluated   *)
(* left to right in binary64 as the script does, for all parameters; with  *)
(* the default constants step 1 gives 991.5, 308.5 and 15.17.              *)
C3_StepRecurrence ==
  /\ \A k \in {j \in 1..(time_steps - 1) : Examined(j)} :
       /\ RockWritten(k) =>
            rock[k] = FAdd(FSub(rock[k - 1], FMul(c1, rock[k - 1])),
                           FMul(c2, atmo[k - 1]))
       /\ AtmoWritten(k) =>
            atmo[k] = FSub(FAdd(atmo[k - 1], FMul(c1, rock[k - 1])),
                           FMul(c2, atmo[k - 1]))
       /\ TWritten(k) =>
            T[k] = FAdd(T_0, FMul(c3, FSub(atmo[k], atmo_0)))
  /\ (Defaults /\ TWritten(1)) =>
       /\ rock[1] = Dec(9915, 1)
       /\ atmo[1] = Dec(3085, 1)
       /\ T[1] = Dec(1517, 2)

C3_Witness ==
  /\ Defaults
  /\ pc = "done"
  /\ time_steps >= 3
  /\ rock[1] = Dec(9915, 1) /\ atmo[1] = Dec(3085, 1) /\ T[1] = Dec(1517, 2)
  /\ rock[2] # rock[1]

(* C4: for every step count N <= 0 the run never gets past lines 24-34:   *)
(* no loop step is computed, nothing is plotted or saved, and the only     *)
(* state the run can stop in is an error (ValueError from np.zeros for     *)
(* N < 0, IndexError from rock[0] for N = 0, SyntaxError for the header    *)
(* as stored).                                                             *)
C4_InvalidStepCountFails ==
  time_steps <= 0 =>
    /\ pc \in {"compile", "alloc", "init", "error"}
    /\ pc = "init" => time_steps = 0
    /\ pc = "error" =>
         err = (IF header = "prose" THEN "SyntaxError"
                ELSE IF time_steps < 0 THEN "ValueError" ELSE "IndexError")
    /\ pc # "error" => ENABLED Next
    /\ i = 0
    /\ plotted = <<>>
    /\ ~saved
    /\ ArrLen(rock) = 0 /\ ArrLen(atmo) = 0 /\ ArrLen(T) = 0

C4_Witness ==
  /\ time_steps = 0
  /\ pc = "error"
  /\ err = "IndexError"
  /\ plotted = <<>>

(* C5: with c1 = c2 = 0 the finished trajectory is constant for every N,   *)
(* c3 and initial state: rock[k] = rock_0, atmo[k] = atmo_0, T[k] = T_0.   *)
C5_ZeroRatesConstant ==
  (c1 = Zero /\ c2 = Zero /\ Finished) =>
    \A k \in 0..(time_steps - 1) :
      rock[k] = rock_0 /\ atmo[k] = atmo_0 /\ T[k] = T_0

C5_Witness ==
  /\ c1 = Zero /\ c2 = Zero
  /\ pc = "done"
  /\ time_steps >= 3
  /\ rock_0 # Zero /\ atmo_0 # Zero
  /\ T[time_steps - 1] = T_0

(* C6: with N = 1 the loop variable is never bound (the body runs zero     *)
(* times) and the trajectory handed to the plot calls is the initial       *)
(* state alone.                                                            *)
C6_SingleStepIsInitialState ==
  time_steps = 1 =>
    /\ i = 0
    /\ pc \notin {"rock", "atmo", "temp"}
    /\ Finished =>
         /\ rock = [k \in {0} |-> rock_0]
         /\ atmo = [k \in {0} |-> atmo_0]
         /\ T = [k \in {0} |-> T_0]
    /\ plotted # <<>> =>
         /\ plotted[1].y = [k \in {0} |-> rock_0]
         /\ plotted[2].y = [k \in {0} |-> atmo_0]
         /\ plotted[3].y = [k \in {0} |-> T_0]

C6_Witness ==
  /\ time_steps = 1
  /\ pc = "done"
  /\ plotted # <<>>
  /\ rock_0 # Zero

(* C7 (as stated): across a written step k the total rock[k] + atmo[k]    *)
(* equals the previous total only when the two fluxes c1*rock[k-1] and     *)
(* c2*atmo[k-1] are equal; when they differ the total changes.             *)
C7_TotalChangesWhenFluxesDiffer ==
  \A k \in {j \in 1..(time_steps - 1) : Examined(j)} :
    AtmoWritten(k) =>
      (FMul(c1, rock[k - 1]) # FMul(c2, atmo[k - 1])
         => DAdd(rock[k], atmo[k]) # DAdd(rock[k - 1], atmo[k - 1]))

(* C7 (amended): every step conserves the total whether or not the fluxes  *)
(* are equal, up to the rounding of the step's four additions: the change  *)
(* of rock + atmo is at most 2^-53 times the sum of the magnitudes of the  *)
(* four rounded sums rock[k-1]-f, rock[k], atmo[k-1]+f and atmo[k].        *)
C7_TotalConservedUpToRounding ==
  \A k \in {j \in 1..(time_steps - 1) : Examined(j)} :
    AtmoWritten(k) =>
      LET f     == FMul(c1, rock[k - 1])
          t1    == FSub(rock[k - 1], f)
          t2    == FAdd(atmo[k - 1], f)
          drift == DAbs(DSub(DAdd(rock[k], atmo[k]),
                             DAdd(rock[k - 1], atmo[k - 1])))
          mags  == DAdd(DAdd(DAbs(t1), DAbs(rock[k])),
                        DAdd(DAbs(t2), DAbs(atmo[k])))
      IN DLeq(drift, DScale(mags, 0 - Precision))

\* a written step with unequal fluxes that leaves the total exactly unchanged
C7_Witness ==
  \E k \in 1..(time_steps - 1) :
    /\ AtmoWritten(k)
    /\ FMul(c1, rock[k - 1]) # FMul(c2, atmo[k - 1])
    /\ rock[k] # rock[k - 1]
    /\ DAdd(rock[k], atmo[k]) = DAdd(rock[k - 1], atmo[k - 1])

(* C8 (as stated): the atmosphere update of step k reads rock[k], written  *)
(* by the rock update of the same step.                                    *)
C8_AtmoReadsUpdatedRock ==
  \A k \in {j \in 1..(time_steps - 1) : Examined(j)} :
    AtmoWritten(k) =>
      atmo[k] = FSub(FAdd(atmo[k - 1], FMul(c1, rock[k])),
                     FMul(c2, atmo[k - 1]))

(* C8 (amended): the atmosphere update of step i reads rock[i-1], the      *)
(* value the rock update of the same step read; rock[i], already written,  *)
(* is not used.                                                            *)
C8_AtmoReadsPreviousRock ==
  [][pc = "atmo" =>
       LET fromPrev == FSub(FAdd(atmo[i - 1], FMul(c1, rock[i - 1])),
                            FMul(c2, atmo[i - 1]))
           fromCur  == FSub(FAdd(atmo[i - 1], FMul(c1, rock[i])),
                            FMul(c2, atmo[i - 1]))
       IN /\ atmo'[i] = fromPrev
          /\ fromCur # fromPrev => atmo'[i] # fromCur]_vars

\* the atmosphere update has run in a step where the two readings differ
C8_Witness ==
  /\ pc = "temp"
  /\ i >= 1
  /\ c1 # Zero
  /\ rock[i] # rock[i - 1]
  /\ atmo[i] # FSub(FAdd(atmo[i - 1], FMul(c1, rock[i])), FMul(c2, atmo[i - 1]))
  /\ atmo[i] = FSub(FAdd(atmo[i - 1], FMul(c1, rock[i - 1])), FMul(c2, atmo[i - 1]))

(* C9: the arrays are allocated once with length N and never resized; the  *)
(* loop visits indices 1, 2, ... in order and step i writes only index i   *)
(* of rock, atmo and T; the parameters never change; the plot calls happen *)
(* only when index N-1 has been written, and no trajectory element changes *)
(* afterwards.                                                             *)
C9_FilledInIndexOrder ==
  [][/\ params' = params
     /\ pc # "alloc" =>
          /\ DOMAIN rock' = DOMAIN rock
          /\ DOMAIN atmo' = DOMAIN atmo
          /\ DOMAIN T' = DOMAIN T
          /\ time' = time
     /\ (pc = "alloc" /\ pc' # "error") =>
          /\ DOMAIN rock' = 0..(time_steps - 1)
          /\ DOMAIN atmo' = 0..(time_steps - 1)
          /\ DOMAIN T' = 0..(time_steps - 1)
     /\ i' \in {i, i + 1}
     /\ i' # i => (pc = "for" /\ TWritten(i) /\ ~RockWritten(i'))
     /\ pc \in {"rock", "atmo", "temp"} =>
          \A j \in DOMAIN rock :
            j # i => (rock'[j] = rock[j] /\ atmo'[j] = atmo[j] /\ T'[j] = T[j])
     /\ pc \notin {"alloc", "init", "rock", "atmo", "temp"} =>
          (rock' = rock /\ atmo' = atmo /\ T' = T)
     /\ plotted' # plotted =>
          /\ i = time_steps - 1
          /\ \A j \in 0..(time_steps - 1) :
               RockWritten(j) /\ AtmoWritten(j) /\ TWritten(j)
     /\ Finished => (Finished' /\ rock' = rock /\ atmo' = atmo /\ T' = T)
    ]_vars

C9_Witness ==
  /\ pc = "done"
  /\ time_steps >= 3
  /\ i = time_steps - 1
  /\ rock[i] # rock[i - 1]
  /\ plotted[1].y = rock

(* C10 (as stated): with 0 <= c1 <= 1, 0 <= c2 <= 1, rock_0 >= 0 and       *)
(* atmo_0 >= 0, every written rock[k] and atmo[k] lies between 0 and       *)
(* rock_0 + atmo_0.                                                        *)
C10_ReservoirsWithinInitialTotal ==
  (/\ DLeq(Zero, c1) /\ DLeq(c1, Dec(1, 0))
   /\ DLeq(Zero, c2) /\ DLeq(c2, Dec(1, 0))
   /\ DLeq(Zero, rock_0) /\ DLeq(Zero, atmo_0)) =>
    \A k \in {j \in 0..(time_steps - 1) : Examined(j)} :
      /\ RockWritten(k) =>
           (DLeq(Zero, rock[k]) /\ DLeq(rock[k], DAdd(rock_0, atmo_0)))
      /\ AtmoWritten(k) =>
           (DLeq(Zero, atmo[k]) /\ DLeq(atmo[k], DAdd(rock_0, atmo_0)))

(* C10 (amended): under the same conditions no reservoir goes negative,    *)
(* and each stays below the initial total up to accumulated rounding:      *)
(* rock[k], atmo[k] <= (rock_0 + atmo_0) * (1 + 3k * 2^-52).               *)
C10_ReservoirsWithinRoundedTotal ==
  (/\ DLeq(Zero, c1) /\ DLeq(c1, Dec(1, 0))
   /\ DLeq(Zero, c2) /\ DLeq(c2, Dec(1, 0))
   /\ DLeq(Zero, rock_0) /\ DLeq(Zero, atmo_0)) =>
    \A k \in {j \in 0..(time_steps - 1) : Examined(j)} :
      LET total == DAdd(rock_0, atmo_0)
          bound == DAdd(total, DScale(DMul(total, Dec(3 * k, 0)), 1 - Precision))
      IN /\ RockWritten(k) => (DLeq(Zero, rock[k]) /\ DLeq(rock[k], bound))
         /\ AtmoWritten(k) => (DLeq(Zero, atmo[k]) /\ DLeq(atmo[k], bound))

\* a written reservoir value above the initial total, within the rounded bound
C10_Witness ==
  /\ DLeq(Zero, c1) /\ DLeq(c1, Dec(1, 0))
  /\ DLeq(Zero, c2) /\ DLeq(c2, Dec(1, 0))
  /\ DLeq(Zero, rock_0) /\ DLeq(Zero, atmo_0)
  /\ \E k \in 1..(time_steps - 1) :
       /\ AtmoWritten(k)
       /\ DLess(DAdd(rock_0, atmo_0), atmo[k])
       /\ DLeq(Zero, rock[k])

====
